---- MODULE Spec2Model ----
(***************************************************************************)
(* Model of LoopVectorizeEnv (rl_env.py) and of the training driver        *)
(* (train.py).  The environment owns a cursor over the loop records, a     *)
(* calibrated baseline time, and drives an external four-stage toolchain   *)
(* (apply, vectorize, compile, execute) through files in the working       *)
(* directory.  The directive file loop_actions.json is part of the state:  *)
(* it outlives an environment instance.                                    *)
(***************************************************************************)
EXTENDS Integers, Sequences, FiniteSets, TLC

\* ---------------------------------------------------------------- bounds
MaxLoops == 2        \* longest loop_features.json that is loaded
MaxTime == 2         \* elapsed times are drawn from 1..MaxTime (clock ticks)
MaxAbsAction == 50   \* action_to_metadata is applied to -MaxAbsAction..MaxAbsAction

\* ------------------------------------------------------- program constants
obs_dim == 6

\* current_loop_idx / baseline_time before __init__ has assigned them
Unset == 0 - 1

\* --------------------------------------------------------------- inputs
\* Records of loop_features.json: dicts, some of them without the optional keys.
RecL1 == [loop_id |-> "L1", num_blocks |-> 3, num_loads |-> 2, num_stores |-> 1,
          num_arith |-> 4, num_calls |-> 0, trip_count_est |-> 8]
RecL2 == [loop_id |-> "L2", num_blocks |-> 1, num_arith |-> 2, trip_count_est |-> 0 - 1]
RecL3 == [loop_id |-> "L3", num_loads |-> 5, num_stores |-> 5]

Records == {RecL1, RecL2, RecL3}

LoopIds == {r.loop_id : r \in Records}

\* sequences of length 0..n over S
RECURSIVE SeqsUpTo(_, _)
SeqsUpTo(S, n) ==
    IF n = 0 THEN {<<>>}
    ELSE LET shorter == SeqsUpTo(S, n - 1)
         IN  shorter \cup {Append(s, x) : s \in {t \in shorter : Len(t) = n - 1}, x \in S}

\* the contents loop_features.json can have (a JSON list; possibly empty,
\* possibly with a repeated loop_id)
FeatureFiles == SeqsUpTo(Records, MaxLoops)

\* action values a caller passes: the four of Discrete(4) and two outside
Actions == {0 - 1, 0, 1, 2, 3, 4}

\* entries of a whole-program action vector
VecActions == {0, 2, 4}

Times == 1..MaxTime

\* ---------------------------------------------------------------- state
VARIABLES
    env,               \* "absent" | "constructing" | "ready": life of the instance
    loops,             \* self.loops
    n_loops,           \* self.n_loops
    single_loop_mode,  \* self.single_loop_mode
    baseline_time,     \* self.baseline_time (Unset until assigned)
    current_loop_idx,  \* self.current_loop_idx (Unset until assigned)
    loop_actions,      \* file loop_actions.json: <<>> if absent, <<map>> if present
    pc,                \* "idle", or the stage run_binary is about to invoke
    tag,               \* run_binary's tag argument ("none" outside run_binary)
    call,              \* the call in progress and its argument
    act_map,           \* step's local act_map
    stages,            \* invocations made by the current run_binary: <<[stage, ok]>>
    ret,               \* outcome of the last call: a return value or a raised exception
    nsteps,            \* single-loop steps completed by this instance (saturating)
    targeted,          \* cursor values single-loop steps of this instance acted on
    binary_path,       \* self.binary_path, split at "/"
    binaries,          \* executables on disk: location -> "fresh" (written by the
                       \* current evaluation) or "stale" (by an earlier one)
    executed,          \* <<>>, or <<what stage 4 of the current evaluation launched>>
    elapsed            \* run_binary's local elapsed (Unset until measured)

vars == <<env, loops, n_loops, single_loop_mode, baseline_time, current_loop_idx,
          loop_actions, pc, tag, call, act_map, stages, ret, nsteps, targeted,
          binary_path, binaries, executed, elapsed>>

\* ------------------------------------------------------- pure functions
\* a dict with no key
EmptyMap == [k \in {} |-> [key |-> "disable", val |-> "true"]]

\* d[k] = v on a dict
Put(d, k, v) == [x \in (DOMAIN d) \cup {k} |-> IF x = k THEN v ELSE d[x]]

\* dict.get(k, default)
Get(d, k, default) == IF k \in DOMAIN d THEN d[k] ELSE default

\* list[i] is defined (Python accepts -len..len-1)
InRange(i, n) == (0 - n) <= i /\ i < n

\* list[i] for an index in range
GetItem(s, i) == IF i >= 0 THEN s[i + 1] ELSE s[Len(s) + i + 1]

\* variant of action_to_metadata: an action above the range is clamped to width 8
action_to_metadata_clamp(action) ==
    IF action <= 0 THEN [key |-> "disable", val |-> "true"]
    ELSE IF action = 1 THEN [key |-> "width", val |-> "2"]
    ELSE IF action = 2 THEN [key |-> "width", val |-> "4"]
    ELSE [key |-> "width", val |-> "8"]

\* action_to_metadata: the directive as json.dump writes it
action_to_metadata(action) ==
    IF action = 0 THEN [key |-> "disable", val |-> "true"]
    ELSE IF action = 1 THEN [key |-> "width", val |-> "2"]
    ELSE IF action = 2 THEN [key |-> "width", val |-> "4"]
    ELSE IF action = 3 THEN [key |-> "width", val |-> "8"]
    ELSE [key |-> "disable", val |-> "true"]

\* np.float32 of an integer: exact up to 2^24, then the low bit is lost
Float32(x) ==
    IF (0 - 16777216) <= x /\ x <= 16777216 THEN x ELSE x - (x % 2)

\* variant of feature_to_obs: the trip count is left out of the vector
feature_to_obs_notrip(loop) ==
    << Float32(Get(loop, "num_blocks", 0)), Float32(Get(loop, "num_loads", 0)),
       Float32(Get(loop, "num_stores", 0)), Float32(Get(loop, "num_arith", 0)),
       Float32(Get(loop, "num_calls", 0)) >>

\* _feature_to_obs
feature_to_obs(loop) ==
    LET tri == Get(loop, "trip_count_est", 0 - 1)
    IN  << Float32(Get(loop, "num_blocks", 0)), Float32(Get(loop, "num_loads", 0)),
           Float32(Get(loop, "num_stores", 0)), Float32(Get(loop, "num_arith", 0)),
           Float32(Get(loop, "num_calls", 0)), Float32(tri) >>

\* np.concatenate of the encodings of all records, in list order
RECURSIVE concat_obs(_)
concat_obs(ls) ==
    IF ls = <<>> THEN <<>> ELSE feature_to_obs(Head(ls)) \o concat_obs(Tail(ls))

\* np.zeros(n)
zeros(n) == [i \in 1..n |-> 0]

\* variant of build_act_map: the last entry of the vector is not decoded
RECURSIVE build_act_map_short(_, _)
build_act_map_short(ls, action) ==
    IF Len(action) <= 1 THEN EmptyMap
    ELSE LET k == Len(action) - 1
         IN  Put(build_act_map_short(ls, SubSeq(action, 1, k)),
                 GetItem(ls, k - 1).loop_id, action_to_metadata(action[k]))

\* the loop of step's whole-program branch over enumerate(action), for a
\* vector no longer than the list: later entries overwrite earlier ones
RECURSIVE build_act_map(_, _)
build_act_map(ls, action) ==
    IF action = <<>> THEN EmptyMap
    ELSE LET k == Len(action)
         IN  Put(build_act_map(ls, SubSeq(action, 1, k - 1)),
                 GetItem(ls, k - 1).loop_id, action_to_metadata(action[k]))

\* train.py: ir_path
ir_path == "benchmark.ll"

\* __init__: the default binary_path "./a.out"; a path is the list of its
\* components, as splitting it at "/" gives them
DefaultBinaryPath == <<".", "a.out">>

\* binary_path values a caller passes: "./a.out", "a.out", "tmp/a.out", "/tmp/a.out"
BinaryPaths == {<<".", "a.out">>, <<"a.out">>, <<"tmp", "a.out">>, <<"", "tmp", "a.out">>}

\* f"./{path}"
DotSlash(path) == <<".">> \o path

\* IsName(c): c is a component that names a directory entry
IsName(c) == c # "" /\ c # "."

\* the file a path names for a child process started in the working
\* directory: absolute when the path starts with "/", "." and empty
\* components dropped
Resolve(path) ==
    [abs |-> path # <<>> /\ path[1] = "", comps |-> SelectSeq(path, IsName)]

\* the executables on disk when an evaluation begins: all from earlier ones
Stale(bins) == [l \in DOMAIN bins |-> "stale"]

\* the command lines of run_binary (f"./{self.binary_path}" for the last)
Cmd(stage) ==
    CASE stage = "apply" ->
            <<"opt", "-load-pass-plugin=./LoopRLOpt.so", "-passes=loop-rl-opt",
              ir_path, "-S", "-o", "tmp_opt.ll">>
      [] stage = "vectorize" ->
            <<"opt", "-loop-vectorize", "tmp_opt.ll", "-S", "-o", "tmp_vec.ll">>
      [] stage = "compile" ->
            <<"clang", "tmp_vec.ll", "-O3", "-o", binary_path>>
      [] stage = "execute" ->
            <<DotSlash(binary_path)>>

\* variant of CalledProcessError: the command of the failed call is lost
CalledProcessError_nocmd(stage) == [type |-> "CalledProcessError", cmd |-> <<>>]

\* the exception subprocess.check_call raises on a non-zero exit
CalledProcessError(stage) == [type |-> "CalledProcessError", cmd |-> Cmd(stage)]

NoCall == [op |-> "none"]
Pending == [kind |-> "pending"]
Raised(op, exc) == [kind |-> "raise", op |-> op, exc |-> exc]
Returned(op, value) == [kind |-> "return", op |-> op, value |-> value]

\* ------------------------------------------------------------------ Init
Init ==
    /\ env = "absent"
    /\ loops = <<>>
    /\ n_loops = 0
    /\ single_loop_mode = TRUE
    /\ baseline_time = Unset
    /\ current_loop_idx = Unset
    /\ loop_actions = <<>>
    /\ pc = "idle"
    /\ tag = "none"
    /\ call = NoCall
    /\ act_map = EmptyMap
    /\ stages = <<>>
    /\ ret = Pending
    /\ nsteps = 0
    /\ targeted = {}
    /\ binary_path = DefaultBinaryPath
    /\ binaries = EmptyMap
    /\ executed = <<>>
    /\ elapsed = Unset


\* --------------------------------------------------- pieces of the handlers
\* reset: self.current_loop_idx = 0
reset_idx == 0

\* variants of next_idx: a cursor that skips a loop, a cursor that runs backwards
next_idx_skip(idx) == idx + 2
next_idx_back(idx) == idx - 1

\* step, single-loop branch: self.current_loop_idx += 1
next_idx(idx) == idx + 1

\* variant of step_done: the episode is left open
step_done_open == FALSE

\* step: done = True
step_done == TRUE

\* variant of reward_of: the slowdown is rewarded
reward_of_slowdown(bt, t) == t - bt

\* step: reward = self.baseline_time - t
reward_of(bt, t) == bt - t

\* variant of single_act_map: the directive always goes to the first loop
single_act_map_first(ls, idx, action) ==
    Put(EmptyMap, GetItem(ls, 0).loop_id, action_to_metadata(action))

\* step, single-loop branch: act_map = {}; act_map[loop_id] = action_to_metadata(action)
single_act_map(ls, idx, action) ==
    Put(EmptyMap, GetItem(ls, idx).loop_id, action_to_metadata(action))

\* variant of next_stage: the vectorizer is left out
next_stage_novec(s) ==
    CASE s = "apply" -> "compile"
      [] s = "vectorize" -> "compile"
      [] s = "compile" -> "execute"

\* the stage run_binary invokes after stage s has exited with status 0
next_stage(s) ==
    CASE s = "apply" -> "vectorize"
      [] s = "vectorize" -> "compile"
      [] s = "compile" -> "execute"

\* ------------------------------------------------------------- operations
\* __init__ up to the call of run_binary(ir_path, "baseline")
Construct(file, mode, bpath) ==
    /\ pc = "idle"
    /\ binary_path' = bpath
    /\ binaries' = Stale(binaries)
    /\ executed' = <<>>
    /\ elapsed' = Unset
    /\ env' = "constructing"
    /\ loops' = file
    /\ n_loops' = Len(file)
    /\ single_loop_mode' = mode
    /\ baseline_time' = Unset
    /\ current_loop_idx' = Unset
    /\ UNCHANGED loop_actions
    /\ pc' = "apply"
    /\ tag' = "baseline"
    /\ call' = [op |-> "construct"]
    /\ act_map' = EmptyMap
    /\ stages' = <<>>
    /\ ret' = Pending
    /\ nsteps' = 0
    /\ targeted' = {}

\* a caller constructs an environment in the working directory
New == \E file \in FeatureFiles, mode \in BOOLEAN :
           Construct(file, mode, DefaultBinaryPath)

\* reset()
Reset ==
    /\ env = "ready"
    /\ pc = "idle"
    /\ current_loop_idx' = reset_idx
    /\ ret' = IF single_loop_mode
              THEN IF InRange(reset_idx, n_loops)
                   THEN Returned("reset", feature_to_obs(GetItem(loops, reset_idx)))
                   ELSE Raised("reset", [type |-> "IndexError"])
              ELSE IF n_loops = 0
                   THEN Raised("reset", [type |-> "ValueError"])
                   ELSE Returned("reset", concat_obs(loops))
    /\ UNCHANGED <<env, loops, n_loops, single_loop_mode, baseline_time, loop_actions,
                   pc, tag, call, act_map, stages, nsteps, targeted,
                   binary_path, binaries, executed, elapsed>>

\* variant of StepSingle: loop_actions.json is opened for writing before the
\* record is looked up, so a refused step leaves it truncated
StepSingle_openfirst(action) ==
    /\ env = "ready"
    /\ pc = "idle"
    /\ single_loop_mode
    /\ IF InRange(current_loop_idx, n_loops)
       THEN /\ act_map' = single_act_map(loops, current_loop_idx, action)
            /\ loop_actions' = <<act_map'>>
            /\ pc' = "apply"
            /\ tag' = "trial"
            /\ call' = [op |-> "step", action |-> action]
            /\ stages' = <<>>
            /\ ret' = Pending
            /\ targeted' = targeted \cup {current_loop_idx}
            /\ binaries' = Stale(binaries)
            /\ executed' = <<>>
            /\ elapsed' = Unset
       ELSE /\ ret' = Raised("step", [type |-> "IndexError"])
            /\ loop_actions' = <<EmptyMap>>
            /\ UNCHANGED <<act_map, pc, tag, call, stages, targeted,
                           binaries, executed, elapsed>>
    /\ UNCHANGED <<env, loops, n_loops, single_loop_mode, baseline_time,
                   current_loop_idx, nsteps, binary_path>>

\* step(action), single-loop branch, up to the call of run_binary(ir_path, "trial")
StepSingle(action) ==
    /\ env = "ready"
    /\ pc = "idle"
    /\ single_loop_mode
    /\ IF InRange(current_loop_idx, n_loops)
       THEN /\ act_map' = single_act_map(loops, current_loop_idx, action)
            /\ loop_actions' = <<act_map'>>
            /\ pc' = "apply"
            /\ tag' = "trial"
            /\ call' = [op |-> "step", action |-> action]
            /\ stages' = <<>>
            /\ ret' = Pending
            /\ targeted' = targeted \cup {current_loop_idx}
            /\ binaries' = Stale(binaries)
            /\ executed' = <<>>
            /\ elapsed' = Unset
       ELSE /\ ret' = Raised("step", [type |-> "IndexError"])
            /\ UNCHANGED <<act_map, loop_actions, pc, tag, call, stages, targeted,
                           binaries, executed, elapsed>>
    /\ UNCHANGED <<env, loops, n_loops, single_loop_mode, baseline_time,
                   current_loop_idx, nsteps, binary_path>>

\* step(action), whole-program branch, up to the call of run_binary(ir_path, "trial")
StepWhole(action) ==
    /\ env = "ready"
    /\ pc = "idle"
    /\ ~single_loop_mode
    /\ IF Len(action) <= n_loops
       THEN /\ act_map' = build_act_map(loops, action)
            /\ loop_actions' = <<act_map'>>
            /\ pc' = "apply"
            /\ tag' = "trial"
            /\ call' = [op |-> "step", action |-> action]
            /\ stages' = <<>>
            /\ ret' = Pending
            /\ binaries' = Stale(binaries)
            /\ executed' = <<>>
            /\ elapsed' = Unset
       ELSE /\ ret' = Raised("step", [type |-> "IndexError"])
            /\ UNCHANGED <<act_map, loop_actions, pc, tag, call, stages,
                           binaries, executed, elapsed>>
    /\ UNCHANGED <<env, loops, n_loops, single_loop_mode, baseline_time,
                   current_loop_idx, nsteps, targeted, binary_path>>

Step ==
    \/ \E action \in Actions : StepSingle(action)
    \/ \E action \in SeqsUpTo(VecActions, n_loops + 1) : StepWhole(action)

\* variant of FailWith: __init__ catches the exception of the baseline run
\* and returns the instance
FailWith_caught(exc) ==
    /\ pc' = "idle"
    /\ tag' = "none"
    /\ call' = NoCall
    /\ act_map' = EmptyMap
    /\ IF tag = "baseline"
       THEN /\ env' = "ready"
            /\ ret' = Returned("construct", "self")
       ELSE /\ env' = env
            /\ ret' = Raised("step", exc)
    /\ UNCHANGED <<loops, n_loops, single_loop_mode, binary_path, baseline_time,
                   current_loop_idx, loop_actions, nsteps, targeted, elapsed>>

\* variant of FailWith: the cursor advances although the trial failed
FailWith_advance(exc) ==
    /\ pc' = "idle"
    /\ tag' = "none"
    /\ call' = NoCall
    /\ act_map' = EmptyMap
    /\ IF tag = "baseline"
       THEN /\ env' = "absent"
            /\ loops' = <<>>
            /\ n_loops' = 0
            /\ single_loop_mode' = TRUE
            /\ binary_path' = DefaultBinaryPath
            /\ ret' = Raised("construct", exc)
            /\ UNCHANGED current_loop_idx
       ELSE /\ ret' = Raised("step", exc)
            /\ current_loop_idx' = IF single_loop_mode THEN current_loop_idx + 1
                                                       ELSE current_loop_idx
            /\ UNCHANGED <<env, loops, n_loops, single_loop_mode, binary_path>>
    /\ UNCHANGED <<baseline_time, loop_actions, nsteps, targeted, elapsed>>

\* check_call raised exc: the exception leaves run_binary and its caller,
\* step or __init__, neither of which catches it
FailWith(exc) ==
    /\ pc' = "idle"
    /\ tag' = "none"
    /\ call' = NoCall
    /\ act_map' = EmptyMap
    /\ IF tag = "baseline"
       THEN /\ env' = "absent"
            /\ loops' = <<>>
            /\ n_loops' = 0
            /\ single_loop_mode' = TRUE
            /\ binary_path' = DefaultBinaryPath
            /\ ret' = Raised("construct", exc)
       ELSE /\ ret' = Raised("step", exc)
            /\ UNCHANGED <<env, loops, n_loops, single_loop_mode, binary_path>>
    /\ UNCHANGED <<baseline_time, current_loop_idx, loop_actions, nsteps, targeted,
                   elapsed>>

\* the process of stage s exited with a non-zero status
Fail(s) == FailWith(CalledProcessError(s))

\* one of the three tool invocations of run_binary, exiting with status 0 or not
RunStage(s, ok) ==
    /\ pc = s
    /\ stages' = Append(stages, [stage |-> s, ok |-> ok])
    /\ IF ok
       THEN /\ pc' = next_stage(s)
            /\ binaries' = IF s = "compile"
                           THEN Put(binaries, Resolve(binary_path), "fresh")
                           ELSE binaries
            /\ UNCHANGED <<env, loops, n_loops, single_loop_mode, baseline_time,
                           current_loop_idx, loop_actions, tag, call, act_map, ret,
                           nsteps, targeted, binary_path, elapsed>>
       ELSE /\ Fail(s)
            /\ UNCHANGED binaries
    /\ UNCHANGED executed

StageApply == \E ok \in BOOLEAN : RunStage("apply", ok)
StageVectorize == \E ok \in BOOLEAN : RunStage("vectorize", ok)
StageCompile == \E ok \in BOOLEAN : RunStage("compile", ok)

\* the rest of __init__ once run_binary has returned t
FinishConstruct(t) ==
    /\ baseline_time' = t
    /\ current_loop_idx' = 0
    /\ env' = "ready"
    /\ ret' = Returned("construct", "self")
    /\ UNCHANGED <<loops, n_loops, single_loop_mode, nsteps, targeted, binary_path>>

\* variant of FinishStep: the trial's time becomes the new baseline
FinishStep_rebase(t) ==
    /\ baseline_time' = t
    /\ IF single_loop_mode
       THEN /\ current_loop_idx' = next_idx(current_loop_idx)
            /\ nsteps' = IF nsteps < MaxLoops THEN nsteps + 1 ELSE nsteps
            /\ ret' = Returned("step", [obs |-> zeros(obs_dim),
                                        reward |-> reward_of(baseline_time, t),
                                        done |-> step_done,
                                        info |-> [runtime |-> t]])
       ELSE /\ ret' = Returned("step", [obs |-> zeros(n_loops * obs_dim),
                                        reward |-> reward_of(baseline_time, t),
                                        done |-> step_done,
                                        info |-> [runtime |-> t]])
            /\ UNCHANGED <<current_loop_idx, nsteps>>
    /\ UNCHANGED <<env, loops, n_loops, single_loop_mode, targeted, binary_path>>

\* the rest of step once run_binary has returned t
FinishStep(t) ==
    /\ IF single_loop_mode
       THEN /\ current_loop_idx' = next_idx(current_loop_idx)
            /\ nsteps' = IF nsteps < MaxLoops THEN nsteps + 1 ELSE nsteps
            /\ ret' = Returned("step", [obs |-> zeros(obs_dim),
                                        reward |-> reward_of(baseline_time, t),
                                        done |-> step_done,
                                        info |-> [runtime |-> t]])
       ELSE /\ ret' = Returned("step", [obs |-> zeros(n_loops * obs_dim),
                                        reward |-> reward_of(baseline_time, t),
                                        done |-> step_done,
                                        info |-> [runtime |-> t]])
            /\ UNCHANGED <<current_loop_idx, nsteps>>
    /\ UNCHANGED <<env, loops, n_loops, single_loop_mode, baseline_time, targeted,
                   binary_path>>

\* the timed execution of the binary, and the return of run_binary to its caller
StageExecute ==
    /\ pc = "execute"
    /\ UNCHANGED binaries
    /\ LET target == Resolve(DotSlash(binary_path))
       IN  IF target \in DOMAIN binaries
           THEN \E ok \in BOOLEAN :
                /\ stages' = Append(stages, [stage |-> "execute", ok |-> ok])
                /\ executed' = <<[path |-> target, artifact |-> binaries[target]]>>
                /\ IF ok
                   THEN /\ \E t \in Times :
                             /\ elapsed' = t
                             /\ IF tag = "baseline" THEN FinishConstruct(t)
                                                    ELSE FinishStep(t)
                        /\ pc' = "idle"
                        /\ tag' = "none"
                        /\ call' = NoCall
                        /\ act_map' = EmptyMap
                        /\ UNCHANGED loop_actions
                   ELSE Fail("execute")
           ELSE \* no such file: no process is started
                /\ FailWith([type |-> "FileNotFoundError"])
                /\ UNCHANGED <<stages, executed>>

Next ==
    \/ New
    \/ Reset
    \/ Step
    \/ StageApply
    \/ StageVectorize
    \/ StageCompile
    \/ StageExecute

Spec == Init /\ [][Next]_vars

\* ------------------------------------------------ the training driver
\* train.py line 8: one environment, single_loop_mode=True
TrainNew ==
    /\ env = "absent"
    /\ ret = Pending
    /\ \E file \in FeatureFiles : Construct(file, TRUE, DefaultBinaryPath)

\* DummyVecEnv resets the environment before the first step and after every
\* step that returned done
TrainReset ==
    /\ ret.kind = "return"
    /\ ret.op \in {"construct", "step"}
    /\ Reset

\* PPO samples an action of Discrete(4) for the observation reset returned
TrainStep ==
    /\ ret.kind = "return"
    /\ ret.op = "reset"
    /\ \E action \in 0..3 : StepSingle(action)

NextTrain ==
    \/ TrainNew
    \/ TrainReset
    \/ TrainStep
    \/ StageApply
    \/ StageVectorize
    \/ StageCompile
    \/ StageExecute

SpecTrain == Init /\ [][NextTrain]_vars

\* ------------------------------------- action_to_metadata on its own
\* a caller is about to decode one integer
InitDecode ==
    /\ env = "absent"
    /\ loops = <<>>
    /\ n_loops = 0
    /\ single_loop_mode = TRUE
    /\ baseline_time = Unset
    /\ current_loop_idx = Unset
    /\ loop_actions = <<>>
    /\ pc = "idle"
    /\ tag = "none"
    /\ \E action \in (0 - MaxAbsAction)..MaxAbsAction :
          call = [op |-> "action_to_metadata", action |-> action]
    /\ act_map = EmptyMap
    /\ stages = <<>>
    /\ ret = Pending
    /\ nsteps = 0
    /\ targeted = {}
    /\ binary_path = DefaultBinaryPath
    /\ binaries = EmptyMap
    /\ executed = <<>>
    /\ elapsed = Unset

\* action_to_metadata(action) returns
Decode ==
    /\ call.op = "action_to_metadata"
    /\ ret = Pending
    /\ ret' = Returned("action_to_metadata", action_to_metadata(call.action))
    /\ UNCHANGED <<env, loops, n_loops, single_loop_mode, baseline_time,
                   current_loop_idx, loop_actions, pc, tag, call, act_map, stages,
                   nsteps, targeted, binary_path, binaries, executed, elapsed>>

SpecDecodeFn == InitDecode /\ [][Decode]_vars

\* ------------------------------------- callers that choose binary_path
\* a caller constructs an environment with a binary_path of its own
NewAt ==
    \E file \in SeqsUpTo(Records, 1), mode \in BOOLEAN, bpath \in BinaryPaths :
        Construct(file, mode, bpath)

NextPaths ==
    \/ NewAt
    \/ Reset
    \/ Step
    \/ StageApply
    \/ StageVectorize
    \/ StageCompile
    \/ StageExecute

SpecPaths == Init /\ [][NextPaths]_vars


\* ======================================================================
\* Properties
\* ======================================================================

\* transitions, recognised from the state they change
StepStarts == pc = "idle" /\ tag' = "trial"
StepRuns == tag = "trial" /\ tag' = "trial"
StepReturns == tag = "trial" /\ ret'.kind = "return"
StepRaises == ret' # ret /\ ret'.kind = "raise" /\ ret'.op = "step"
ResetEnds == ret'.kind # "pending" /\ ret'.op = "reset"

\* what stage 1 finds in loop_actions.json (an absent file carries no directive)
FileMap == IF loop_actions = <<>> THEN EmptyMap ELSE loop_actions[1]

\* the directive table of the data model
SpecDecode(a) ==
    CASE a = 0 -> [key |-> "disable", val |-> "true"]
      [] a = 1 -> [key |-> "width", val |-> "2"]
      [] a = 2 -> [key |-> "width", val |-> "4"]
      [] a = 3 -> [key |-> "width", val |-> "8"]
      [] OTHER -> [key |-> "disable", val |-> "true"]

StageOrder == <<"apply", "vectorize", "compile", "execute">>

\* C1: in single-loop mode a step that completes leaves the cursor one above
\* its value when the step was called (the cursor does not move while the
\* step runs), and every reset leaves the cursor at 0.
C1_CursorStepAndReset ==
    [][ single_loop_mode =>
          /\ (StepStarts \/ StepRuns) => current_loop_idx' = current_loop_idx
          /\ StepReturns => current_loop_idx' = current_loop_idx + 1
          /\ ResetEnds => current_loop_idx' = 0 ]_vars

\* two steps in a row, with no reset between them, have both completed
C1_Witness ==
    /\ single_loop_mode
    /\ ret.kind = "return"
    /\ ret.op = "step"
    /\ current_loop_idx = 2

\* C2: a constructed environment has 0 <= current_loop_idx <= n_loops, and
\* no transition of a step (its start, its stages, its return or its
\* failure) lowers current_loop_idx.
C2_CursorRange ==
    /\ [](env = "ready" => (0 <= current_loop_idx /\ current_loop_idx <= n_loops))
    /\ [][ (StepStarts \/ StepRuns \/ StepReturns \/ StepRaises)
             => current_loop_idx' >= current_loop_idx ]_vars

\* a step was refused at the end of the list: the cursor stays at n_loops
C2_Witness ==
    /\ env = "ready"
    /\ n_loops >= 1
    /\ current_loop_idx = n_loops
    /\ ret.kind = "raise"
    /\ ret.op = "step"
    /\ ret.exc.type = "IndexError"

\* C3: whenever the apply stage of an evaluation starts, the directive file
\* holds the DirectiveMap of that evaluation: the empty map for the baseline
\* run, step's act_map for a trial.
C3_DirectiveFileFresh ==
    pc = "apply" => FileMap = (IF tag = "baseline" THEN EmptyMap ELSE act_map)

\* C4: baseline_time is assigned by construction only: no transition of a
\* constructed environment (reset, step, its stages, its failure) changes
\* it, and the reward a step returns is that value minus the step's runtime.
C4_BaselineFrozen ==
    [][ /\ (env = "ready" /\ env' = "ready") => baseline_time' = baseline_time
        /\ (env = "ready" /\ env' = "ready") => baseline_time \in Times
        /\ StepReturns =>
             ret'.value.reward = baseline_time' - ret'.value.info.runtime ]_vars

\* a step returned a time different from the baseline
C4_Witness ==
    /\ env = "ready"
    /\ ret.kind = "return"
    /\ ret.op = "step"
    /\ ret.value.info.runtime # baseline_time
    /\ nsteps = 2

\* C5: the invocations of one evaluation are a prefix of apply, vectorize,
\* compile, execute (so each is made at most once); all but the last have
\* exited with status 0; the stage about to start is the next of the list.
C5_StageOrder ==
    /\ Len(stages) <= 4
    /\ \A i \in 1..Len(stages) : stages[i].stage = StageOrder[i]
    /\ \A i \in 1..(Len(stages) - 1) : stages[i].ok
    /\ pc # "idle" =>
         /\ Len(stages) < 4
         /\ pc = StageOrder[Len(stages) + 1]
         /\ \A i \in 1..Len(stages) : stages[i].ok

\* the compiler failed: nothing was executed
C5_Witness ==
    /\ pc = "idle"
    /\ Len(stages) = 3
    /\ stages[1].ok
    /\ stages[2].ok
    /\ ~stages[3].ok


\* a stage of a trial has just exited with a non-zero status
TrialStageFails ==
    /\ tag = "trial"
    /\ Len(stages') = Len(stages) + 1
    /\ ~stages'[Len(stages')].ok

\* C6 as stated: a failing tool stage of a step ends the call in a
\* ToolchainStageError, a failing run of the measured program in an
\* ExecutionError, and the step returns no tuple.
C6_TypedErrors ==
    [][ TrialStageFails =>
          /\ ret'.kind = "raise"
          /\ ret'.exc.type = (IF stages'[Len(stages')].stage = "execute"
                              THEN "ExecutionError" ELSE "ToolchainStageError") ]_vars

\* C6 as amended: a failing invocation of a step ends the call in the
\* CalledProcessError of that invocation, for the measured program as for
\* the three tools; its command is the command of the failed stage and of no
\* other stage; the step returns no tuple.
C6_StageErrorIdentified ==
    [][ TrialStageFails =>
          /\ ret'.kind = "raise"
          /\ ret'.op = "step"
          /\ ret'.exc.type = "CalledProcessError"
          /\ \A i \in 1..4 :
                (ret'.exc.cmd = Cmd(StageOrder[i])) <=> (i = Len(stages')) ]_vars

\* the measured program of a trial exited with a non-zero status
C6_Witness ==
    /\ ret.kind = "raise"
    /\ ret.op = "step"
    /\ ret.exc.type = "CalledProcessError"
    /\ Len(stages) = 4
    /\ ~stages[4].ok
    /\ ret.exc.cmd = Cmd("execute")

\* C7: under the training driver (reset before every step) every loop has
\* been the target of a step once as many steps as there are loops are done.
C7_EveryLoopTargeted ==
    (env = "ready" /\ single_loop_mode /\ n_loops >= 2 /\ nsteps >= n_loops)
        => targeted = 0..(n_loops - 1)

\* C8: while a single-loop step evaluates, the directive file holds a map
\* with exactly one entry, keyed by the loop_id of the record under the
\* cursor and valued by the directive of the action; it is there when the
\* apply stage starts.
C8_SingleDirective ==
    (single_loop_mode /\ tag = "trial") =>
        /\ 0 <= current_loop_idx /\ current_loop_idx < n_loops
        /\ loop_actions # <<>>
        /\ DOMAIN FileMap = {loops[current_loop_idx + 1].loop_id}
        /\ FileMap[loops[current_loop_idx + 1].loop_id] = SpecDecode(call.action)

\* the second loop is acted on with width 4, the toolchain has not started
C8_Witness ==
    /\ single_loop_mode
    /\ tag = "trial"
    /\ pc = "apply"
    /\ stages = <<>>
    /\ current_loop_idx = 1
    /\ loops[2].loop_id # loops[1].loop_id
    /\ call.action = 2

DistinctIds(ls) ==
    \A i, j \in 1..Len(ls) : i # j => ls[i].loop_id # ls[j].loop_id

\* C9: while a whole-program step evaluates an action vector of exactly
\* n_loops entries over records with pairwise distinct loop_ids, the
\* directive file holds one entry per loop_id, n_loops entries in all, and
\* the entry of the i-th record is the directive of the i-th action.
C9_WholeDirectives ==
    (~single_loop_mode /\ tag = "trial" /\ n_loops >= 1
       /\ Len(call.action) = n_loops /\ DistinctIds(loops)) =>
        /\ loop_actions # <<>>
        /\ DOMAIN FileMap = {loops[i].loop_id : i \in 1..n_loops}
        /\ Cardinality(DOMAIN FileMap) = n_loops
        /\ \A i \in 1..n_loops :
              FileMap[loops[i].loop_id] = SpecDecode(call.action[i])

\* two distinct loops get two different directives, one of them from an
\* action out of range
C9_Witness ==
    /\ ~single_loop_mode
    /\ tag = "trial"
    /\ pc = "apply"
    /\ n_loops = 2
    /\ DistinctIds(loops)
    /\ call.action = <<4, 2>>

\* C10: every tuple a step returns has done = true.
C10_AlwaysDone ==
    (ret.kind = "return" /\ ret.op = "step") => ret.value.done = TRUE

\* a whole-program step has returned
C10_Witness ==
    /\ ~single_loop_mode
    /\ n_loops >= 1
    /\ ret.kind = "return"
    /\ ret.op = "step"

\* C11: every observation reset or step returns from an environment with at
\* least one loop has 6 entries in single-loop mode and 6 * n_loops entries
\* in whole-program mode.
C11_ObsLength ==
    (env = "ready" /\ n_loops >= 1 /\ ret.kind = "return" /\ ret.op \in {"reset", "step"}) =>
        LET obs == IF ret.op = "reset" THEN ret.value ELSE ret.value.obs
        IN  Len(obs) = (IF single_loop_mode THEN 6 ELSE 6 * n_loops)

\* reset has returned the observation of two loops in whole-program mode,
\* after a step
C11_Witness ==
    /\ env = "ready"
    /\ ~single_loop_mode
    /\ n_loops = 2
    /\ ret.kind = "return"
    /\ ret.op = "reset"
    /\ Len(ret.value) = 12
    /\ Len(stages) = 4
    /\ tag = "none"
    /\ elapsed # baseline_time

\* C12: the tuple a step returns carries as info.runtime the time measured
\* for that step's own run, and as reward baseline_time minus that time:
\* positive when the run was faster than the baseline, negative when it was
\* slower, zero when the times are equal.
C12_RewardSign ==
    (ret.kind = "return" /\ ret.op = "step") =>
        /\ elapsed \in Times
        /\ ret.value.info.runtime = elapsed
        /\ ret.value.reward = baseline_time - elapsed
        /\ (elapsed < baseline_time) => ret.value.reward > 0
        /\ (elapsed > baseline_time) => ret.value.reward < 0
        /\ (elapsed = baseline_time) => ret.value.reward = 0

\* a trial ran faster than the baseline
C12_Witness ==
    /\ ret.kind = "return"
    /\ ret.op = "step"
    /\ elapsed < baseline_time
    /\ ret.value.reward > 0

\* C13: action_to_metadata returns a directive for every integer: disable
\* for 0, width 2 for 1, width 4 for 2, width 8 for 3, and disable for every
\* integer below 0 or above 3.
C13_DecodeTotal ==
    (ret.kind = "return" /\ ret.op = "action_to_metadata") =>
        LET a == call.action
            d == ret.value
        IN  /\ a = 0 => d = [key |-> "disable", val |-> "true"]
            /\ a = 1 => d = [key |-> "width", val |-> "2"]
            /\ a = 2 => d = [key |-> "width", val |-> "4"]
            /\ a = 3 => d = [key |-> "width", val |-> "8"]
            /\ (a < 0 \/ a > 3) => d = [key |-> "disable", val |-> "true"]

\* an action far above the range has been decoded
C13_Witness ==
    /\ ret.kind = "return"
    /\ ret.op = "action_to_metadata"
    /\ call.action > 40
    /\ ret.value.key = "disable"

\* C14: an environment over an empty feature collection does not come to
\* exist: its construction runs no toolchain stage and it never becomes
\* ready for reset or step.
C14_EmptyRejected ==
    (env # "absent" /\ n_loops = 0) => (env # "ready" /\ stages = <<>>)

FieldOrder == <<"num_blocks", "num_loads", "num_stores", "num_arith", "num_calls",
                "trip_count_est">>

\* the k-th number of the concatenated six-field encodings of the records ls
EncodedAt(ls, k) ==
    LET r == ls[((k - 1) \div 6) + 1]
        j == ((k - 1) % 6) + 1
    IN  IF FieldOrder[j] \in DOMAIN r THEN r[FieldOrder[j]]
        ELSE IF j = 6 THEN 0 - 1 ELSE 0

EncodeAll(ls) == [k \in 1..(6 * Len(ls)) |-> EncodedAt(ls, k)]

\* C15: in whole-program mode no transition of a step changes
\* current_loop_idx, the loop records or baseline_time, and every reset
\* returns the concatenation of the encodings of all records in load order.
C15_WholeStateless ==
    [][ ~single_loop_mode =>
          /\ (StepStarts \/ StepRuns \/ StepReturns \/ StepRaises) =>
                /\ current_loop_idx' = current_loop_idx
                /\ loops' = loops
                /\ baseline_time' = baseline_time
          /\ ResetEnds => (ret'.kind = "return" /\ ret'.value = EncodeAll(loops)) ]_vars

\* C15 for environments with at least one loop record: the same, reset
\* being looked at only when n_loops >= 1.
C15_WholeStatelessNonEmpty ==
    [][ ~single_loop_mode =>
          /\ (StepStarts \/ StepRuns \/ StepReturns \/ StepRaises) =>
                /\ current_loop_idx' = current_loop_idx
                /\ loops' = loops
                /\ baseline_time' = baseline_time
          /\ (ResetEnds /\ n_loops >= 1) =>
                (ret'.kind = "return" /\ ret'.value = EncodeAll(loops)) ]_vars

\* C16: what stage 4 of an evaluation launches is the file at binary_path,
\* and that file was written by stage 3 of the same evaluation, whichever
\* binary_path the environment was constructed with.
C16_TimedIsCompiled ==
    (env # "absent" /\ executed # <<>>) =>
        /\ executed[1].path = Resolve(binary_path)
        /\ executed[1].artifact = "fresh"

\* a stage of the baseline run has just exited with a non-zero status
BaselineStageFails ==
    /\ tag = "baseline"
    /\ Len(stages') = Len(stages) + 1
    /\ ~stages'[Len(stages')].ok

\* C17: a failing stage of the baseline run ends construction in the
\* exception of that stage and leaves no instance; an instance that exists
\* has its baseline_time, and reset and step act on such an instance only.
C17_BaselineFailureIsFatal ==
    /\ [](env = "ready" => baseline_time \in Times)
    /\ [][ /\ BaselineStageFails =>
                (env' = "absent" /\ ret'.kind = "raise" /\ ret'.op = "construct")
           /\ (tag = "baseline" /\ ret'.kind = "raise") => env' = "absent"
           /\ (StepStarts \/ StepRaises \/ ResetEnds) =>
                (env = "ready" /\ baseline_time \in Times) ]_vars

\* the vectorizer failed during calibration: there is no instance
C17_Witness ==
    /\ env = "absent"
    /\ ret.kind = "raise"
    /\ ret.op = "construct"
    /\ Len(stages) = 2
    /\ ~stages[2].ok

\* the single-loop cursor has passed the last record and no call is running
EpisodeDone ==
    /\ single_loop_mode
    /\ env = "ready"
    /\ pc = "idle"
    /\ current_loop_idx = n_loops

\* C18: in single-loop mode, with the cursor at n_loops, no step starts an
\* evaluation: the call raises IndexError, and it leaves the directive
\* file, the toolchain (no stage is started) and the cursor as they were.
C18_StepRefusedAtEnd ==
    [][ EpisodeDone =>
          /\ tag' # "trial"
          /\ StepRaises =>
                /\ ret'.exc.type = "IndexError"
                /\ loop_actions' = loop_actions
                /\ stages' = stages
                /\ pc' = "idle"
                /\ binaries' = binaries
                /\ current_loop_idx' = current_loop_idx ]_vars

\* both loops have been stepped through and a third step was refused; the
\* file still holds the directive of the second loop
C18_Witness ==
    /\ single_loop_mode
    /\ env = "ready"
    /\ n_loops = 2
    /\ nsteps = 2
    /\ current_loop_idx = 2
    /\ ret.kind = "raise"
    /\ ret.op = "step"
    /\ ret.exc.type = "IndexError"
    /\ loop_actions # <<>>
    /\ DOMAIN FileMap = {loops[2].loop_id}
    /\ Len(stages) = 4

\* the evaluation of a step has just ended in an exception
TrialFails == tag = "trial" /\ ret'.kind = "raise"

\* the call before this one was a step whose evaluation failed
AfterFailedTrial ==
    /\ ret.kind = "raise"
    /\ ret.op = "step"
    /\ ret.exc.type # "IndexError"

\* C19: while a step runs and when its evaluation fails, at whatever stage,
\* current_loop_idx and baseline_time stay as they were when it was called
\* and the directive file holds the step's DirectiveMap; in single-loop mode
\* the step called next, with no reset between, writes the directive of the
\* same loop.
C19_FailedStepKeepsCursor ==
    [][ /\ (StepStarts \/ StepRuns \/ TrialFails) =>
              /\ current_loop_idx' = current_loop_idx
              /\ baseline_time' = baseline_time
        /\ TrialFails =>
              /\ ret'.op = "step"
              /\ loop_actions' = <<act_map>>
              /\ single_loop_mode =>
                    DOMAIN act_map = {loops[current_loop_idx' + 1].loop_id}
        /\ (single_loop_mode /\ AfterFailedTrial /\ StepStarts) =>
              DOMAIN act_map' = DOMAIN FileMap ]_vars

\* the compiler failed in a step on the second loop: the cursor is still on
\* the second loop and the file holds its directive
C19_Witness ==
    /\ single_loop_mode
    /\ env = "ready"
    /\ n_loops = 2
    /\ loops[1].loop_id # loops[2].loop_id
    /\ current_loop_idx = 1
    /\ AfterFailedTrial
    /\ Len(stages) = 3
    /\ DOMAIN FileMap = {loops[2].loop_id}

====
